---- MODULE Spec2Model ----
(***************************************************************************)
(* The concurrent fetch / dispatch / upload pipeline of fetch.go:          *)
(* ImageFetchHandler.Handle (the orchestrator), BaseImageFetcher.Fetch     *)
(* (one goroutine per retained Fetcher and cycle), the per-task error      *)
(* forwarders, ImageUploadHandler.Handle (the dispatcher), the upload      *)
(* tasks, the error loop of main and the signal goroutine of main; the     *)
(* startup of main with the Fetcher constructors, and Fetcher.Cleanup.     *)
(* Unbuffered channels are modelled as rendezvous: a send and its receive  *)
(* are one step.                                                           *)
(***************************************************************************)
EXTENDS Integers, Sequences, FiniteSets, TLC

\* Size of the configured Fetcher set (len(handler.Fetchers)).
NumFetchers == 3
\* Number of orchestrator cycles explored (the loop of Handle is unbounded).
MaxCycles == 2

\* Images missing from the catalog at startup, in FairSpec.
MaxMissing == 2
\* Images missing from the catalog at startup, in ShutdownSpec.
ShutdownMissing == 1

Fetchers == 1..NumFetchers
Cycles == 1..MaxCycles
\* A fetch task is one `go fetcher.Fetch(...)`: a Fetcher in a cycle.
Tasks == Fetchers \X Cycles
NoTask == <<0, 0>>

\* Calls of one Fetcher's Cleanup explored in CleanupSpec.
MaxCalls == 3
\* Images missing from the catalog at startup, in StartupSpec.
StartupMissing == 1
\* Configured triples explored in NamingSpec.
NamingLen == 1

VARIABLES
    catalog,    \* names of the images present in the remote catalog
    cycle,      \* number of the iteration of Handle's outer loop
    hpc,        \* position of Handle: "filter","range","sendErr","returned","sleep"
    batch,      \* the slice filterFetchers returned for this cycle
    idx,        \* position of the range loop in batch
    wg,         \* handler.WaitGroup's counter
    failedRes,  \* the Fetcher whose GetImageURL failed in this cycle (0: none)
    tpc,        \* position of each fetch task
    fwd,        \* each task's error forwarder: "none", "recv" or "send"
    dimg,       \* the image the dispatcher received and has not yet spawned
    up,         \* state of the upload task of each image
    upStarted,  \* number of upload tasks started per image
    imgSent,    \* completed sends on ImagesChannel, per task
    errSent,    \* completed sends on the task's own error channel, per task
    logged,     \* errors main received from each forwarder
    resLogged,  \* resolution errors main received from Handle
    filterCat,  \* the catalog as the filter saw it in this cycle
    dirs,       \* each Fetcher's temporary directory: "absent","empty","files"
    top,        \* the top-level temporary directory: "present","absent"
    spc,        \* the signal goroutine: "start","idle","try","rmdir","exit","exited"
    signalled,  \* a signal was delivered to the process
    pass,       \* 1: the per-Fetcher Cleanup loop, 2: RemoveAll of the top level
    ci,         \* the Fetcher the cleanup is at
    mpc,        \* position of main: "config","tempdir","build","start","loop",
                \* or the way the process ended before: "panic","killed"
    config,     \* the configured (distribution, release, architecture) triples,
                \* in the order the nested range loops visit them
    built,      \* handler.Fetchers: the Fetchers built so far
    cleanCalls, \* returned calls of each Fetcher's Cleanup (CleanupSpec)
    cleanRet    \* what the last call of each Fetcher's Cleanup returned

vars == <<catalog, cycle, hpc, batch, idx, wg, failedRes, tpc, fwd, dimg, up,
          upStarted, imgSent, errSent, logged, resLogged, filterCat, dirs, top,
          spc, signalled, pass, ci, mpc, config, built, cleanCalls, cleanRet>>

hvars == <<cycle, hpc, batch, idx, failedRes, filterCat>>
fsvars == <<dirs, top>>
sigvars == <<spc, signalled, pass, ci>>
upvars == <<up, upStarted>>
mainvars == <<mpc, config, built>>
cleanvars == <<cleanCalls, cleanRet>>
mvars == <<mainvars, cleanvars>>

\* The goroutines of the pipeline exist once main has started them, and run
\* until the process exits.
Running == mpc = "loop" /\ spc # "exited"

(***************************************************************************)
(* The Fetcher constructors and the names                                  *)
(***************************************************************************)

KnownDistros == {"ubuntu", "debian"}
Architectures == {"amd64", "arm64"}

DebianStableRelease == "current-9"
DebianTestingRelease == "testing"
UbuntuLatestRelease == "xenial"

\* DebianReleaseMap[release]; a Go map yields "" for a key it does not hold.
DebianReleaseMap(release) ==
    IF release = DebianStableRelease THEN "9"
    ELSE IF release = DebianTestingRelease THEN "testing"
    ELSE ""

\* fmt.Sprintf("%s-%s-%s", a, b, c)
Sprintf3(a, b, c) == a \o "-" \o b \o "-" \o c

\* NewDebianImageFetcher keeping the release it was given.
NewDebianImageFetcherNoAlias(release, architecture) ==
    [Name |-> "debian", Architecture |-> architecture, Release |-> release]

\* NewDebianImageFetcher: stretch and latest become the stable release, then
\* buster becomes the testing release; any other release is kept.
NewDebianImageFetcher(release, architecture) ==
    LET r1 == IF release = "stretch" \/ release = "latest"
              THEN DebianStableRelease ELSE release
        r2 == IF r1 = "buster" THEN DebianTestingRelease ELSE r1
    IN [Name |-> "debian", Architecture |-> architecture, Release |-> r2]

\* NewUbuntuImageFetcher: "" and latest become xenial; any other release is
\* kept.
NewUbuntuImageFetcher(release, architecture) ==
    LET r == IF release = "" \/ release = "latest"
             THEN UbuntuLatestRelease ELSE release
    IN [Name |-> "ubuntu", Architecture |-> architecture, Release |-> r]

\* NewImageFetcher for a distribution it has a case for.
NewImageFetcher(distro, release, architecture) ==
    IF distro = "ubuntu" THEN NewUbuntuImageFetcher(release, architecture)
    ELSE NewDebianImageFetcher(release, architecture)

\* BaseImageFetcher.GetName of the f-th Fetcher of handler.Fetchers.
GetName(f) == Sprintf3(built[f].Name, built[f].Release, built[f].Architecture)

\* The distribution family of the f-th Fetcher.
Distro(f) == built[f].Name

\* The Image a fetch task of the f-th Fetcher builds before it downloads.
Image(f) ==
    [Release |-> built[f].Release, Distro |-> built[f].Name,
     Architecture |-> built[f].Architecture]

\* The name under which the uploader publishes an Image in the catalog.
CatalogName(image) == Sprintf3(image.Distro, image.Release, image.Architecture)

\* DebianImageFetcher.GetImageURL of the f-th Fetcher (the path below
\* DebianBaseOpenstackImagesURL).
DebianGetImageURL(f) ==
    "/" \o built[f].Release \o "/debian-" \o DebianReleaseMap(built[f].Release)
        \o "-openstack-" \o built[f].Architecture \o ".qcow2"

\* The configuration the pipeline is explored with: Ubuntu and Debian
\* sources alternating, every triple with its own name.
ExampleConfig ==
    [f \in 1..NumFetchers |->
        <<IF f % 2 = 0 THEN "debian" ELSE "ubuntu",
          IF f % 2 = 0 THEN "stretch" ELSE "latest",
          IF f <= 2 THEN "amd64" ELSE "arm64">>]

\* handler.Fetchers after NewImageFetcherHandler went through cfg.
BuiltFrom(cfg) ==
    [i \in 1..Len(cfg) |-> NewImageFetcher(cfg[i][1], cfg[i][2], cfg[i][3])]

SeqRange(s) == {s[i] : i \in 1..Len(s)}

\* The subsequence of s whose elements are in S, in the order of s.
RECURSIVE SelectIn(_, _)
SelectIn(s, S) ==
    IF s = <<>> THEN <<>>
    ELSE IF Head(s) \in S THEN <<Head(s)>> \o SelectIn(Tail(s), S)
    ELSE SelectIn(Tail(s), S)

AllFetchers == [i \in 1..NumFetchers |-> i]

\* The Dedup Filter: the Fetchers whose name is not in the catalog.
FilterFetchers(cat) == SelectIn(AllFetchers, {f \in Fetchers : GetName(f) \notin cat})

MissingAtMost(n) == Cardinality({f \in Fetchers : GetName(f) \notin catalog}) <= n

ErrKinds == {"errReq", "errDo", "errStatus", "errTmp", "errCopy"}

\* No goroutine of the pipeline has taken a step.
InitPipeline ==
    /\ cycle = 0
    /\ hpc = "filter"
    /\ batch = <<>>
    /\ idx = 1
    /\ wg = 0
    /\ failedRes = 0
    /\ tpc = [t \in Tasks |-> "none"]
    /\ fwd = [t \in Tasks |-> "none"]
    /\ dimg = NoTask
    /\ up = [t \in Tasks |-> "none"]
    /\ upStarted = [t \in Tasks |-> 0]
    /\ imgSent = [t \in Tasks |-> 0]
    /\ errSent = [t \in Tasks |-> 0]
    /\ logged = [t \in Tasks |-> 0]
    /\ resLogged = 0
    /\ filterCat = {}
    /\ signalled = FALSE
    /\ pass = 1
    /\ ci = 1
    /\ cleanCalls = [f \in Fetchers |-> 0]
    /\ cleanRet = [f \in Fetchers |-> "none"]

InitCore ==
    /\ mpc = "loop"
    /\ config = ExampleConfig
    /\ built = BuiltFrom(ExampleConfig)
    /\ catalog \in SUBSET {GetName(f) : f \in Fetchers}
    /\ InitPipeline
    /\ top = "present"
    /\ spc = "start"

\* The state after main has built the handlers and started the goroutines:
\* every Fetcher's directory was just made by ioutil.TempDir.
Init ==
    /\ InitCore
    /\ dirs = [f \in Fetchers |-> "empty"]

\* The same, with the cycles counted from the top of any cycle of a process
\* that has run before: a directory may hold the files of earlier downloads.
InitLater ==
    /\ InitCore
    /\ dirs \in [Fetchers -> {"empty", "files"}]

(***************************************************************************)
(* ImageFetchHandler.Handle                                                *)
(***************************************************************************)

\* HandleFilter ranging over handler.Fetchers itself, the filter not applied.
HandleNoFilter ==
    /\ Running
    /\ hpc = "filter"
    /\ cycle < MaxCycles
    /\ cycle' = cycle + 1
    /\ batch' = AllFetchers
    /\ filterCat' = catalog
    /\ failedRes' = 0
    /\ idx' = 1
    /\ hpc' = "range"
    /\ UNCHANGED <<catalog, wg, tpc, fwd, dimg, upvars, imgSent,
                   errSent, logged, resLogged, fsvars, sigvars, mvars>>

\* Top of the outer loop: the range expression filterFetchers(handler.Fetchers)
\* is evaluated once per cycle.
HandleFilter ==
    /\ Running
    /\ hpc = "filter"
    /\ cycle < MaxCycles
    /\ cycle' = cycle + 1
    /\ batch' = FilterFetchers(catalog)
    /\ filterCat' = catalog
    /\ failedRes' = 0
    /\ idx' = 1
    /\ hpc' = "range"
    /\ UNCHANGED <<catalog, wg, tpc, fwd, dimg, upvars, imgSent,
                   errSent, logged, resLogged, fsvars, sigvars, mvars>>

\* HandleSpawn starting the fetch task without its error forwarder.
HandleSpawnNoForwarder ==
    /\ Running
    /\ hpc = "range"
    /\ idx <= Len(batch)
    /\ wg' = wg + 1
    /\ tpc' = [tpc EXCEPT ![<<batch[idx], cycle>>] = "start"]
    /\ idx' = idx + 1
    /\ UNCHANGED <<catalog, cycle, hpc, batch, failedRes, filterCat, fwd, dimg,
                   upvars, imgSent, errSent, logged, resLogged, fsvars, sigvars,
                   mvars>>

\* One iteration of the range loop whose GetImageURL succeeds: WaitGroup.Add(1),
\* then the fetch task and its error forwarder are started.
HandleSpawn ==
    /\ Running
    /\ hpc = "range"
    /\ idx <= Len(batch)
    /\ wg' = wg + 1
    /\ tpc' = [tpc EXCEPT ![<<batch[idx], cycle>>] = "start"]
    /\ fwd' = [fwd EXCEPT ![<<batch[idx], cycle>>] = "recv"]
    /\ idx' = idx + 1
    /\ UNCHANGED <<catalog, cycle, hpc, batch, failedRes, filterCat, dimg, upvars,
                   imgSent, errSent, logged, resLogged, fsvars, sigvars, mvars>>

\* One iteration whose GetImageURL fails (only the Ubuntu resolver can fail):
\* WaitGroup.Add(1) was done, Handle goes on to send the error on
\* handler.ErrorChannel.
HandleResolveFail ==
    /\ Running
    /\ hpc = "range"
    /\ idx <= Len(batch)
    /\ Distro(batch[idx]) = "ubuntu"
    /\ wg' = wg + 1
    /\ failedRes' = batch[idx]
    /\ hpc' = "sendErr"
    /\ UNCHANGED <<catalog, cycle, batch, idx, filterCat, tpc, fwd, dimg, upvars,
                   imgSent, errSent, logged, resLogged, fsvars, sigvars, mvars>>

\* The send of the resolution error completes (main receives it), and Handle
\* returns.
HandleReport ==
    /\ Running
    /\ hpc = "sendErr"
    /\ resLogged' = resLogged + 1
    /\ hpc' = "returned"
    /\ UNCHANGED <<catalog, cycle, batch, idx, wg, failedRes, filterCat, tpc, fwd,
                   dimg, upvars, imgSent, errSent, logged, fsvars, sigvars,
                   mvars>>

\* HandleWait without the join: the loop goes on without WaitGroup.Wait().
HandleWaitNoJoin ==
    /\ Running
    /\ hpc = "range"
    /\ idx > Len(batch)
    /\ hpc' = "sleep"
    /\ UNCHANGED <<catalog, cycle, batch, idx, wg, failedRes, filterCat, tpc, fwd,
                   dimg, upvars, imgSent, errSent, logged, resLogged, fsvars,
                   sigvars, mvars>>

\* The range loop is over and WaitGroup.Wait() returns: the batch join.
HandleWait ==
    /\ Running
    /\ hpc = "range"
    /\ idx > Len(batch)
    /\ wg = 0
    /\ hpc' = "sleep"
    /\ UNCHANGED <<catalog, cycle, batch, idx, wg, failedRes, filterCat, tpc, fwd,
                   dimg, upvars, imgSent, errSent, logged, resLogged, fsvars,
                   sigvars, mvars>>

\* <-time.After(30 s) fires.
HandleTick ==
    /\ Running
    /\ hpc = "sleep"
    /\ hpc' = "filter"
    /\ UNCHANGED <<catalog, cycle, batch, idx, wg, failedRes, filterCat, tpc, fwd,
                   dimg, upvars, imgSent, errSent, logged, resLogged, fsvars,
                   sigvars, mvars>>

(***************************************************************************)
(* BaseImageFetcher.Fetch                                                  *)
(***************************************************************************)

\* FetchDownload calling WaitGroup.Done() when the download is complete,
\* before the send of the image.
FetchDownloadDoneFirst(t) ==
    /\ Running
    /\ tpc[t] = "start"
    /\ \/ /\ \E e \in {"errReq", "errDo", "errStatus", "errTmp"} :
                 tpc' = [tpc EXCEPT ![t] = e]
          /\ UNCHANGED <<dirs, wg>>
       \/ /\ dirs[t[1]] # "absent"
          /\ dirs' = [dirs EXCEPT ![t[1]] = "files"]
          /\ \/ tpc' = [tpc EXCEPT ![t] = "errCopy"] /\ UNCHANGED wg
             \/ tpc' = [tpc EXCEPT ![t] = "sendImg"] /\ wg' = wg - 1
    /\ UNCHANGED <<catalog, hvars, fwd, dimg, upvars, imgSent, errSent,
                   logged, resLogged, top, sigvars, mvars>>

\* FetchDownload returning on a failure without reporting it.
FetchDownloadSilent(t) ==
    /\ Running
    /\ tpc[t] = "start"
    /\ \/ /\ tpc' = [tpc EXCEPT ![t] = "fin"]
          /\ wg' = wg - 1
          /\ UNCHANGED dirs
       \/ /\ dirs[t[1]] # "absent"
          /\ dirs' = [dirs EXCEPT ![t[1]] = "files"]
          /\ tpc' = [tpc EXCEPT ![t] = "sendImg"]
          /\ UNCHANGED wg
    /\ UNCHANGED <<catalog, hvars, fwd, dimg, upvars, imgSent, errSent,
                   logged, resLogged, top, sigvars, mvars>>

\* The body of Fetch up to its send: http.NewRequest, client.Do and the status
\* check (one of them fails, or the response is a 200), ioutil.TempFile in the
\* Fetcher's directory (fails when the directory is gone, may fail otherwise)
\* and io.Copy of the body into the file (may fail). Only TempFile touches
\* state another goroutine reads.
FetchDownload(t) ==
    /\ Running
    /\ tpc[t] = "start"
    /\ \/ /\ \E e \in {"errReq", "errDo", "errStatus", "errTmp"} :
                 tpc' = [tpc EXCEPT ![t] = e]
          /\ UNCHANGED dirs
       \/ /\ dirs[t[1]] # "absent"
          /\ dirs' = [dirs EXCEPT ![t[1]] = "files"]
          /\ \E r \in {"errCopy", "sendImg"} : tpc' = [tpc EXCEPT ![t] = r]
    /\ UNCHANGED <<catalog, hvars, wg, fwd, dimg, upvars, imgSent, errSent,
                   logged, resLogged, top, sigvars, mvars>>

\* FetchSendErr without the return after the send: the task goes on to send
\* its image.
FetchSendErrNoReturn(t) ==
    /\ Running
    /\ tpc[t] \in ErrKinds
    /\ fwd[t] = "recv"
    /\ fwd' = [fwd EXCEPT ![t] = "send"]
    /\ errSent' = [errSent EXCEPT ![t] = @ + 1]
    /\ tpc' = [tpc EXCEPT ![t] = "sendImg"]
    /\ UNCHANGED <<catalog, hvars, wg, dimg, upvars, imgSent, logged, resLogged,
                   fsvars, sigvars, mvars>>

\* *errChannel <- err, received by the task's forwarder; the task returns and
\* its deferred WaitGroup.Done() runs.
FetchSendErr(t) ==
    /\ Running
    /\ tpc[t] \in ErrKinds
    /\ fwd[t] = "recv"
    /\ fwd' = [fwd EXCEPT ![t] = "send"]
    /\ errSent' = [errSent EXCEPT ![t] = @ + 1]
    /\ tpc' = [tpc EXCEPT ![t] = "fin"]
    /\ wg' = wg - 1
    /\ UNCHANGED <<catalog, hvars, dimg, upvars, imgSent, logged, resLogged,
                   fsvars, sigvars, mvars>>

\* The forwarder's send on handler.ErrorChannel completes (main receives it);
\* the forwarder loops back to its receive.
ForwarderSend(t) ==
    /\ Running
    /\ fwd[t] = "send"
    /\ logged' = [logged EXCEPT ![t] = @ + 1]
    /\ fwd' = [fwd EXCEPT ![t] = "recv"]
    /\ UNCHANGED <<catalog, hvars, wg, tpc, dimg, upvars, imgSent, errSent,
                   resLogged, fsvars, sigvars, mvars>>

(***************************************************************************)
(* ImageUploadHandler.Handle and the upload tasks                          *)
(***************************************************************************)

\* DispatcherRecv receiving only once no upload task is running.
DispatcherRecvAfterUploads(t) ==
    /\ Running
    /\ dimg = NoTask
    /\ \A u \in Tasks : up[u] # "running"
    /\ tpc[t] = "sendImg"
    /\ dimg' = t
    /\ imgSent' = [imgSent EXCEPT ![t] = @ + 1]
    /\ tpc' = [tpc EXCEPT ![t] = "fin"]
    /\ wg' = wg - 1
    /\ UNCHANGED <<catalog, hvars, fwd, upvars, errSent, logged, resLogged,
                   fsvars, sigvars, mvars>>

\* image := <-*images: the task's send on ImagesChannel completes, the task
\* returns and its deferred WaitGroup.Done() runs.
DispatcherRecv(t) ==
    /\ Running
    /\ dimg = NoTask
    /\ tpc[t] = "sendImg"
    /\ dimg' = t
    /\ imgSent' = [imgSent EXCEPT ![t] = @ + 1]
    /\ tpc' = [tpc EXCEPT ![t] = "fin"]
    /\ wg' = wg - 1
    /\ UNCHANGED <<catalog, hvars, fwd, upvars, errSent, logged, resLogged,
                   fsvars, sigvars, mvars>>

\* go uploader.Uploader.Upload(&image, uploader.ErrorChannel)
DispatcherSpawn ==
    /\ Running
    /\ dimg # NoTask
    /\ up' = [up EXCEPT ![dimg] = "running"]
    /\ upStarted' = [upStarted EXCEPT ![dimg] = @ + 1]
    /\ dimg' = NoTask
    /\ UNCHANGED <<catalog, hvars, wg, tpc, fwd, imgSent, errSent, logged,
                   resLogged, fsvars, sigvars, mvars>>

\* The upload succeeds: the catalog holds an image of the Fetcher's name.
UploadOK(t) ==
    /\ Running
    /\ up[t] = "running"
    /\ up' = [up EXCEPT ![t] = "ok"]
    /\ catalog' = catalog \cup {GetName(t[1])}
    /\ UNCHANGED <<hvars, wg, tpc, fwd, dimg, upStarted, imgSent, errSent, logged,
                   resLogged, fsvars, sigvars, mvars>>

\* The upload fails (open error, transport error, catalog rejection) and the
\* task's report on the shared error channel is received by main.
UploadFail(t) ==
    /\ Running
    /\ up[t] = "running"
    /\ up' = [up EXCEPT ![t] = "failed"]
    /\ UNCHANGED <<catalog, hvars, wg, tpc, fwd, dimg, upStarted, imgSent, errSent,
                   logged, resLogged, fsvars, sigvars, mvars>>

Pipeline ==
    \/ HandleFilter
    \/ HandleSpawn
    \/ HandleResolveFail
    \/ HandleReport
    \/ HandleWait
    \/ HandleTick
    \/ \E t \in Tasks : FetchDownload(t)
    \/ \E t \in Tasks : FetchSendErr(t)
    \/ \E t \in Tasks : ForwarderSend(t)
    \/ \E t \in Tasks : DispatcherRecv(t)
    \/ DispatcherSpawn
    \/ \E t \in Tasks : UploadOK(t)
    \/ \E t \in Tasks : UploadFail(t)

(***************************************************************************)
(* The signal goroutine of main: <-c; fetcher.Cleanup(); os.Exit(1)        *)
(***************************************************************************)

\* The position after RemoveAll of Fetcher ci's directory returned: the next
\* Fetcher of the loop, then the same walk inside RemoveAll(ImageBasePath),
\* then the removal of the top-level directory itself.
AfterDir ==
    IF ci < NumFetchers THEN <<"try", pass, ci + 1>>
    ELSE IF pass = 1 THEN <<"try", 2, 1>>
    ELSE <<"exit", 2, ci>>

\* The goroutine started by main reaches its receive <-c.
SignalReady ==
    /\ spc = "start"
    /\ spc' = "idle"
    /\ UNCHANGED <<catalog, hvars, wg, tpc, fwd, dimg, upvars, imgSent, errSent,
                   logged, resLogged, fsvars, signalled, pass, ci, mvars>>

\* SIGINT or SIGTERM arrives while no goroutine receives on c: c is
\* unbuffered and signal.Notify never blocks on it, so the signal is dropped.
SignalDropped ==
    /\ spc = "start"
    /\ ~signalled
    /\ signalled' = TRUE
    /\ UNCHANGED <<catalog, hvars, wg, tpc, fwd, dimg, upvars, imgSent, errSent,
                   logged, resLogged, fsvars, spc, pass, ci, mvars>>

\* SIGINT or SIGTERM is delivered on c.
Signal ==
    /\ spc = "idle"
    /\ spc' = "try"
    /\ signalled' = TRUE
    /\ pass' = 1
    /\ ci' = 1
    /\ UNCHANGED <<catalog, hvars, wg, tpc, fwd, dimg, upvars, imgSent, errSent,
                   logged, resLogged, fsvars, mvars>>

\* os.RemoveAll of a Fetcher's directory, first part: Remove succeeds on an
\* empty or absent directory; otherwise the entries read are removed.
CleanupTry ==
    /\ spc = "try"
    /\ IF dirs[ci] = "files"
       THEN /\ dirs' = [dirs EXCEPT ![ci] = "empty"]
            /\ spc' = "rmdir"
            /\ UNCHANGED <<pass, ci>>
       ELSE /\ dirs' = [dirs EXCEPT ![ci] = "absent"]
            /\ spc' = AfterDir[1]
            /\ pass' = AfterDir[2]
            /\ ci' = AfterDir[3]
    /\ UNCHANGED <<catalog, hvars, wg, tpc, fwd, dimg, upvars, imgSent, errSent,
                   logged, resLogged, top, signalled, mvars>>

\* os.RemoveAll, second part: the final Remove of the directory fails when a
\* file was created in it since the entries were read; the error is dropped.
CleanupRmdir ==
    /\ spc = "rmdir"
    /\ dirs' = [dirs EXCEPT ![ci] = IF @ = "empty" THEN "absent" ELSE @]
    /\ spc' = AfterDir[1]
    /\ pass' = AfterDir[2]
    /\ ci' = AfterDir[3]
    /\ UNCHANGED <<catalog, hvars, wg, tpc, fwd, dimg, upvars, imgSent, errSent,
                   logged, resLogged, top, signalled, mvars>>

\* The last Remove of RemoveAll(handler.ImageBasePath), then os.Exit(1).
CleanupExit ==
    /\ spc = "exit"
    /\ top' = IF \A f \in Fetchers : dirs[f] = "absent" THEN "absent" ELSE top
    /\ spc' = "exited"
    /\ UNCHANGED <<catalog, hvars, wg, tpc, fwd, dimg, upvars, imgSent, errSent,
                   logged, resLogged, dirs, signalled, pass, ci, mvars>>

Shutdown ==
    \/ SignalReady
    \/ SignalDropped
    \/ Signal
    \/ CleanupTry
    \/ CleanupRmdir
    \/ CleanupExit

(***************************************************************************)
(* main, from its first statement to its error loop                        *)
(***************************************************************************)

\* NewConfigFromFile: ReadFile or Unmarshal fails and main panics, or the
\* configuration is loaded.
MainLoadConfig ==
    /\ mpc = "config"
    /\ \E next \in {"tempdir", "panic"} : mpc' = next
    /\ UNCHANGED <<catalog, hvars, wg, tpc, fwd, dimg, upvars, imgSent, errSent,
                   logged, resLogged, fsvars, sigvars, config, built, cleanvars>>

\* NewImageFetcherHandler up to its loops: ioutil.TempDir("", "images") fails
\* and main panics, or the top-level directory is made.
MainTempDir ==
    /\ mpc = "tempdir"
    /\ \/ mpc' = "panic" /\ UNCHANGED top
       \/ mpc' = "build" /\ top' = "present"
    /\ UNCHANGED <<catalog, hvars, wg, tpc, fwd, dimg, upvars, imgSent, errSent,
                   logged, resLogged, dirs, sigvars, config, built, cleanvars>>

\* MainBuild with a NewImageFetcher that builds a Fetcher for any
\* distribution.
MainBuildAnyDistro ==
    /\ mpc = "build"
    /\ Len(built) < Len(config)
    /\ LET i == Len(built) + 1
           tr == config[i]
       IN \/ mpc' = "panic" /\ UNCHANGED <<built, dirs>>
          \/ /\ built' = Append(built, NewImageFetcher(tr[1], tr[2], tr[3]))
             /\ dirs' = [dirs EXCEPT ![i] = "empty"]
             /\ UNCHANGED mpc
    /\ UNCHANGED <<catalog, hvars, wg, tpc, fwd, dimg, upvars, imgSent, errSent,
                   logged, resLogged, top, sigvars, config, cleanvars>>

\* One iteration of the loops of NewImageFetcherHandler: NewImageFetcher
\* returns an error for a distribution it has no case for, or the
\* constructor's ioutil.TempDir fails, and main panics; or the Fetcher is
\* built with its own directory and appended to handler.Fetchers.
MainBuild ==
    /\ mpc = "build"
    /\ Len(built) < Len(config)
    /\ LET i == Len(built) + 1
           tr == config[i]
       IN IF tr[1] \notin KnownDistros
          THEN mpc' = "panic" /\ UNCHANGED <<built, dirs>>
          ELSE \/ mpc' = "panic" /\ UNCHANGED <<built, dirs>>
               \/ /\ built' = Append(built, NewImageFetcher(tr[1], tr[2], tr[3]))
                  /\ dirs' = [dirs EXCEPT ![i] = "empty"]
                  /\ UNCHANGED mpc
    /\ UNCHANGED <<catalog, hvars, wg, tpc, fwd, dimg, upvars, imgSent, errSent,
                   logged, resLogged, top, sigvars, config, cleanvars>>

\* NewImageFetcherHandler has returned the handler; NewImageUploadHandler
\* fails (the cloud configuration cannot be read or does not name the cloud)
\* and main panics, or the catalog client is built.
MainNewUploader ==
    /\ mpc = "build"
    /\ Len(built) = Len(config)
    /\ \E next \in {"start", "panic"} : mpc' = next
    /\ UNCHANGED <<catalog, hvars, wg, tpc, fwd, dimg, upvars, imgSent, errSent,
                   logged, resLogged, fsvars, sigvars, config, built, cleanvars>>

\* go fetcher.Handle(...), go uploader.Handle(...), signal.Notify, the signal
\* goroutine, and main enters its error loop.
MainStart ==
    /\ mpc = "start"
    /\ mpc' = "loop"
    /\ spc' = "start"
    /\ UNCHANGED <<catalog, hvars, wg, tpc, fwd, dimg, upvars, imgSent, errSent,
                   logged, resLogged, fsvars, signalled, pass, ci, config, built,
                   cleanvars>>

\* SIGINT or SIGTERM arrives before signal.Notify: the Go runtime's default
\* disposition ends the process at once.
SignalDefault ==
    /\ mpc \in {"config", "tempdir", "build", "start"}
    /\ mpc' = "killed"
    /\ signalled' = TRUE
    /\ UNCHANGED <<catalog, hvars, wg, tpc, fwd, dimg, upvars, imgSent, errSent,
                   logged, resLogged, fsvars, spc, pass, ci, config, built,
                   cleanvars>>

Startup ==
    \/ MainLoadConfig
    \/ MainTempDir
    \/ MainBuild
    \/ MainNewUploader
    \/ MainStart
    \/ SignalDefault

\* The process while it runs: every behaviour up to the delivery of a signal.
Next == Pipeline

Spec == Init /\ [][Next]_vars

\* The process with its signal goroutine, against a catalog that misses at
\* most ShutdownMissing of the configured images.
ShutdownNext == Pipeline \/ Shutdown

ShutdownInit == InitLater /\ MissingAtMost(ShutdownMissing)

ShutdownSpec == ShutdownInit /\ [][ShutdownNext]_vars

\* The process while it runs, under the scheduling the Go runtime gives: a
\* goroutine that can take a step takes it, a channel operation whose partner
\* is ready completes, timers fire. Downloads and uploads may hang (no timeout
\* is set), so nothing is assumed of them. Started against a catalog that
\* misses at most MaxMissing of the configured images.
Fairness ==
    /\ WF_vars(HandleFilter)
    /\ WF_vars(HandleSpawn \/ HandleResolveFail)
    /\ WF_vars(HandleReport)
    /\ WF_vars(HandleWait)
    /\ WF_vars(HandleTick)
    /\ WF_vars(DispatcherSpawn)
    /\ \A t \in Tasks : WF_vars(FetchSendErr(t))
    /\ \A t \in Tasks : WF_vars(ForwarderSend(t))
    /\ \A t \in Tasks : WF_vars(DispatcherRecv(t))

FairInit == Init /\ MissingAtMost(MaxMissing)

FairSpec == FairInit /\ [][Next]_vars /\ Fairness

\* The configurations the whole process is explored with: the triples of
\* ExampleConfig and one of a distribution NewImageFetcher has no case for.
StartupTriples == SeqRange(ExampleConfig) \cup {<<"centos", "7", "amd64">>}

\* The names of the Fetchers a configuration yields.
NamesOf(cfg) ==
    {Sprintf3(r.Name, r.Release, r.Architecture) :
        r \in {NewImageFetcher(tr[1], tr[2], tr[3]) :
                  tr \in {u \in SeqRange(cfg) : u[1] \in KnownDistros}}}

\* The state when main is entered: nothing is built, no directory exists.
MainEntry ==
    /\ mpc = "config"
    /\ built = <<>>
    /\ InitPipeline
    /\ dirs = [f \in Fetchers |-> "absent"]
    /\ top = "absent"
    /\ spc = "none"

\* The whole process, from the entry of main, with NumFetchers distinct
\* configured triples and a catalog that misses at most StartupMissing of
\* their images.
StartupInit ==
    /\ config \in {c \in [1..NumFetchers -> StartupTriples] :
                      \A i \in 1..NumFetchers : \A j \in 1..NumFetchers :
                          c[i] = c[j] => i = j}
    /\ catalog \in {c \in SUBSET NamesOf(config) :
                       Cardinality(NamesOf(config) \ c) <= StartupMissing}
    /\ MainEntry

StartupNext == Startup \/ Pipeline \/ Shutdown

StartupSpec == StartupInit /\ [][StartupNext]_vars

\* FetcherCleanup calling os.Remove: it removes an empty directory only, and
\* fails on a directory that holds files or does not exist.
FetcherCleanupRemove(f) ==
    /\ cleanCalls[f] < MaxCalls
    /\ IF dirs[f] = "empty"
       THEN /\ dirs' = [dirs EXCEPT ![f] = "absent"]
            /\ cleanRet' = [cleanRet EXCEPT ![f] = "nil"]
       ELSE /\ UNCHANGED dirs
            /\ cleanRet' = [cleanRet EXCEPT ![f] = "err"]
    /\ cleanCalls' = [cleanCalls EXCEPT ![f] = @ + 1]
    /\ UNCHANGED <<catalog, hvars, wg, tpc, fwd, dimg, upvars, imgSent, errSent,
                   logged, resLogged, top, sigvars, mainvars>>

\* BaseImageFetcher.Cleanup, called while no fetch task writes: os.RemoveAll
\* removes the Fetcher's directory with all it holds and returns nil, also
\* when the directory does not exist.
FetcherCleanup(f) ==
    /\ cleanCalls[f] < MaxCalls
    /\ dirs' = [dirs EXCEPT ![f] = "absent"]
    /\ cleanRet' = [cleanRet EXCEPT ![f] = "nil"]
    /\ cleanCalls' = [cleanCalls EXCEPT ![f] = @ + 1]
    /\ UNCHANGED <<catalog, hvars, wg, tpc, fwd, dimg, upvars, imgSent, errSent,
                   logged, resLogged, top, sigvars, mainvars>>

\* Cleanup as an operation of its own: the Fetchers are built, each
\* directory is empty (no download yet) or holds files, and nothing else
\* runs.
CleanupInit == InitLater /\ MissingAtMost(0)

CleanupNext == \E f \in Fetchers : FetcherCleanup(f)

CleanupSpec == CleanupInit /\ [][CleanupNext]_vars

\* The release names the constructors are explored with: the aliases, the
\* releases the families publish, and names no family knows.
NamingReleases ==
    {"", "latest", "stretch", "buster", "current-9", "testing", "xenial",
     "bionic", "jessie", "sid"}

NamingTriples == KnownDistros \X NamingReleases \X Architectures

\* The construction of the Fetchers alone, for NamingLen configured triples
\* of any release name.
NamingInit ==
    /\ config \in [1..NamingLen -> NamingTriples]
    /\ catalog = {}
    /\ MainEntry

NamingNext ==
    \/ MainLoadConfig
    \/ MainTempDir
    \/ MainBuild
    \/ MainNewUploader

NamingSpec == NamingInit /\ [][NamingNext]_vars

(***************************************************************************)
(* Properties                                                              *)
(***************************************************************************)

RECURSIVE SumOver(_, _)
SumOver(fn, S) ==
    IF S = {} THEN 0
    ELSE LET x == CHOOSE y \in S : TRUE IN fn[x] + SumOver(fn, S \ {x})

TasksFor(f) == {t \in Tasks : t[1] = f}
BatchTasks == {<<batch[i], cycle>> : i \in 1..Len(batch)}
\* The batch join of the current cycle has released.
Joined == cycle >= 1 /\ hpc \in {"sleep", "filter"}
\* No goroutine of the running process can take a step.
AtRest == ~ENABLED Next

\* C1: no fetch task of cycle N+1 is started before every fetch task started
\* in cycle N has finished (sent its image or its error, and returned).
C1_BatchJoin ==
    \A t \in Tasks : \A u \in Tasks :
        (u[2] = t[2] + 1 /\ tpc[u] # "none") => tpc[t] \in {"none", "fin"}

C1_Witness ==
    \E t \in Tasks : \E u \in Tasks :
        u[2] = t[2] + 1 /\ tpc[u] # "none" /\ tpc[t] = "fin"

\* C2: a batch of three Fetchers of which exactly one fails GetImageURL and
\* no started download fails is completed: when the process comes to rest with
\* such a batch, the join has released, two images were sent on the handoff
\* channel and one error report on the Error Sink.
C2_ResolutionFailureIsolated ==
    (/\ Len(batch) = 3
     /\ failedRes # 0
     /\ \A t \in BatchTasks : errSent[t] = 0 /\ tpc[t] \notin ErrKinds
     /\ AtRest)
    => (/\ Joined
        /\ SumOver(imgSent, BatchTasks) = 2
        /\ resLogged = 1)

\* C3 as claimed: when the batch join releases, every Fetcher of the batch has
\* exactly one image received on the handoff channel or exactly one error
\* report received by the Error Sink, never both, never neither.
C3_ExactlyOneOutcomeAtSink ==
    Joined =>
        \A t \in BatchTasks :
            \/ imgSent[t] = 1 /\ logged[t] = 0
            \/ imgSent[t] = 0 /\ logged[t] = 1

\* C3 as amended: when the batch join releases, every Fetcher of the batch
\* has exactly one image received on the handoff channel and sent no error,
\* or has sent exactly one error to its forwarder and no image; that error is
\* either held by the forwarder or was received once by the Error Sink.
C3_ExactlyOneOutcome ==
    Joined =>
        \A t \in BatchTasks :
            \/ /\ imgSent[t] = 1
               /\ errSent[t] = 0
               /\ logged[t] = 0
               /\ fwd[t] = "recv"
            \/ /\ imgSent[t] = 0
               /\ errSent[t] = 1
               /\ \/ fwd[t] = "send" /\ logged[t] = 0
                  \/ fwd[t] = "recv" /\ logged[t] = 1

C3_Witness ==
    /\ hpc = "sleep"
    /\ \E t \in BatchTasks : \E u \in BatchTasks :
        /\ imgSent[t] = 1
        /\ errSent[u] = 1
        /\ fwd[u] = "send"

\* No resolution, fetch or upload failure has occurred.
NoFailure ==
    /\ resLogged = 0
    /\ hpc \notin {"sendErr", "returned"}
    /\ \A t \in Tasks : errSent[t] = 0 /\ tpc[t] \notin ErrKinds /\ up[t] # "failed"

\* C4: when no failure occurs, no catalog name is fetched and dispatched for
\* upload more than once, over all cycles.
C4_NoDuplicateDispatch ==
    NoFailure =>
        \A f \in Fetchers :
            /\ SumOver(imgSent, TasksFor(f)) <= 1
            /\ SumOver(upStarted, TasksFor(f)) <= 1

\* C5: the orchestrator keeps starting cycles whatever failed before: the
\* process comes to rest only where the model stops counting cycles.
C5_OrchestratorKeepsCycling ==
    AtRest => (hpc = "filter" /\ cycle = MaxCycles)

\* C6: a fetch task whose download failed sends exactly one error and no
\* image, and then returns; an image is sent only by a task whose download
\* wrote the complete body into a created file; a task that returned sends
\* nothing more.
C6_FailedDownloadReportsOnce ==
    [][\A t \in Tasks :
        /\ (tpc[t] \in ErrKinds /\ tpc'[t] # tpc[t]) =>
               (tpc'[t] = "fin" /\ errSent'[t] = 1 /\ imgSent'[t] = 0)
        /\ tpc[t] \in ErrKinds => (errSent[t] = 0 /\ imgSent[t] = 0)
        /\ imgSent'[t] # imgSent[t] => (tpc[t] = "sendImg" /\ errSent[t] = 0)
        /\ (tpc'[t] = "sendImg" /\ tpc[t] # "sendImg") =>
               (tpc[t] = "start" /\ dirs'[t[1]] = "files")
        /\ tpc[t] = "fin" =>
               (tpc'[t] = "fin" /\ errSent'[t] = errSent[t] /\ imgSent'[t] = imgSent[t])
      ]_vars

C6_Witness ==
    \E t \in Tasks :
        /\ tpc[t] = "fin"
        /\ errSent[t] = 1
        /\ imgSent[t] = 0
        /\ dirs[t[1]] = "empty"

\* C7: in every cycle the batch is what the filter returned for the catalog
\* at the start of that cycle; a Fetcher whose name was in the catalog then has
\* no fetch task and no image in that cycle, and only Fetchers of the batch
\* have one.
C7_DedupExclusion ==
    cycle >= 1 =>
        /\ batch = FilterFetchers(filterCat)
        /\ \A f \in Fetchers :
            /\ GetName(f) \in filterCat =>
                   (tpc[<<f, cycle>>] = "none" /\ imgSent[<<f, cycle>>] = 0)
            /\ tpc[<<f, cycle>>] # "none" => f \in SeqRange(batch)
        /\ \A t \in Tasks : t[2] > cycle => tpc[t] = "none"

C7_Witness ==
    /\ cycle = 2
    /\ \E f \in Fetchers : \E g \in Fetchers :
        /\ up[<<f, 1>>] = "ok"
        /\ GetName(f) \in filterCat
        /\ tpc[<<f, 2>>] = "none"
        /\ tpc[<<g, 2>>] # "none"

\* Once a signal has arrived, the signal goroutine is cleaning up or has
\* exited.
C8_SignalHandled ==
    signalled => spc \in {"try", "rmdir", "exit", "exited"}

\* When the process has exited, no Fetcher temporary directory and no
\* top-level temporary directory exists.
C8_ExitLeavesNoTempDir ==
    spc = "exited" => (top = "absent" /\ \A f \in Fetchers : dirs[f] = "absent")

\* C8: a signal arriving at any point makes the signal goroutine clean up and
\* exit, and when the process has exited no Fetcher temporary directory and no
\* top-level temporary directory exists.
C8_ShutdownCleansUp ==
    /\ C8_SignalHandled
    /\ C8_ExitLeavesNoTempDir

\* C9: every send of an error report completes: a fetch task blocked on its
\* own error channel returns, a forwarder holding an error delivers it, the
\* orchestrator's direct send completes, and every error sent is received by
\* the logging loop of main.
C9_ErrorSendsComplete ==
    /\ \A t \in Tasks : (tpc[t] \in ErrKinds) ~> (tpc[t] = "fin" /\ errSent[t] = 1)
    /\ \A t \in Tasks : (fwd[t] = "send") ~> (fwd[t] = "recv" /\ logged[t] = 1)
    /\ \A t \in Tasks : (errSent[t] = 1) ~> (logged[t] = 1)
    /\ (hpc = "sendErr") ~> (hpc = "returned" /\ resLogged = 1)

C9_Witness ==
    /\ resLogged = 1
    /\ \E t \in Tasks : logged[t] = 1

\* C10: every image sent on the handoff channel is received once and gets
\* exactly one upload task, started by the dispatcher right after the receive
\* and never again; the dispatcher's receive never waits for an upload task.
C10_UploadDispatch ==
    \A t \in Tasks :
        /\ imgSent[t] <= 1
        /\ upStarted[t] + (IF dimg = t THEN 1 ELSE 0) = imgSent[t]
        /\ (up[t] # "none") = (upStarted[t] = 1)
        /\ (tpc[t] = "sendImg" /\ dimg = NoTask) => ENABLED DispatcherRecv(t)

C10_Witness ==
    \E t \in Tasks : \E u \in Tasks :
        /\ t # u
        /\ up[t] = "running"
        /\ imgSent[u] = 1
        /\ upStarted[u] = 1

\* No goroutine of the pipeline was started or has taken a step.
NothingStarted ==
    /\ spc = "none"
    /\ cycle = 0
    /\ hpc = "filter"
    /\ wg = 0
    /\ dimg = NoTask
    /\ \A t \in Tasks :
        tpc[t] = "none" /\ fwd[t] = "none" /\ up[t] = "none" /\ imgSent[t] = 0
\* The configuration names a distribution NewImageFetcher has no case for.
UnknownDistro == \E i \in 1..Len(config) : config[i][1] \notin KnownDistros

\* C11: a fatal startup error (configuration not loaded, unknown
\* distribution, catalog client not built) ends main in a panic with no
\* orchestrator cycle, fetch task or dispatcher ever started; no Fetcher is
\* built for an unknown distribution, and a process whose configuration names
\* one never starts its pipeline and comes to rest only aborted.
C11_FatalStartupAborts ==
    /\ mpc = "panic" => (NothingStarted /\ ~ENABLED StartupNext)
    /\ ~NothingStarted => (mpc = "loop" /\ Len(built) = Len(config))
    /\ \A i \in 1..Len(built) :
        config[i][1] \in KnownDistros /\ built[i].Name = config[i][1]
    /\ UnknownDistro =>
        /\ mpc \notin {"start", "loop"}
        /\ NothingStarted
        /\ ~ENABLED StartupNext => mpc \in {"panic", "killed"}

C11_Witness ==
    /\ mpc = "panic"
    /\ Len(built) >= 1
    /\ Len(built) < Len(config)
    /\ config[Len(built) + 1][1] \notin KnownDistros
    /\ dirs[1] = "empty"
    /\ top = "present"

\* C12: whenever the process has terminated (a panic of main at startup, a
\* signal before signal.Notify, the exit of the signal goroutine), no Fetcher
\* temporary directory and no top-level temporary directory exists.
C12_ExitReclaimsStorage ==
    (mpc \in {"panic", "killed"} \/ spc = "exited") =>
        (top = "absent" /\ \A f \in Fetchers : dirs[f] = "absent")

\* C13: the Fetcher built for (debian, stretch, amd64) is named
\* debian-current-9-amd64 and its Images carry debian, current-9, amd64; for
\* every configured triple the catalog name of the Fetcher's Image is its
\* distribution, its release after aliasing and its architecture joined with
\* "-", and equals the Fetcher's GetName().
C13_AliasRoundTrip ==
    \A i \in 1..Len(built) :
        /\ config[i] = <<"debian", "stretch", "amd64">> =>
            /\ GetName(i) = "debian-current-9-amd64"
            /\ Image(i) = [Distro |-> "debian", Release |-> "current-9",
                           Architecture |-> "amd64"]
            /\ CatalogName(Image(i)) = "debian-current-9-amd64"
        /\ Image(i).Distro = config[i][1]
        /\ Image(i).Architecture = config[i][3]
        /\ Image(i).Release = built[i].Release
        /\ CatalogName(Image(i)) =
               config[i][1] \o "-" \o built[i].Release \o "-" \o config[i][3]
        /\ CatalogName(Image(i)) = GetName(i)

C13_Witness ==
    /\ Len(built) >= 1
    /\ config[1] = <<"debian", "stretch", "amd64">>
    /\ CatalogName(Image(1)) = "debian-current-9-amd64"

\* The releases the Ubuntu resolver finds metadata for.
UbuntuReleases == {"trusty", "xenial", "bionic"}
\* The releases a family can resolve to a download URL.
KnownReleases(distro) ==
    IF distro = "debian" THEN {DebianStableRelease, DebianTestingRelease}
    ELSE UbuntuReleases
\* The release names a family's constructor rewrites.
ReleaseAliases(distro) ==
    IF distro = "debian" THEN {"stretch", "latest", "buster"} ELSE {"", "latest"}
DefaultRelease(distro) ==
    IF distro = "debian" THEN DebianStableRelease ELSE UbuntuLatestRelease

\* C14: a configured release name that is neither an alias nor a release of
\* its family resolves to the family's default (xenial, current-9), so the
\* release of every built Fetcher is a release its family knows.
C14_ReleaseFallback ==
    \A i \in 1..Len(built) :
        /\ config[i][2] \notin (ReleaseAliases(config[i][1])
                                \cup KnownReleases(config[i][1])) =>
               built[i].Release = DefaultRelease(config[i][1])
        /\ built[i].Release \in KnownReleases(config[i][1])

\* C15: every call of a Fetcher's Cleanup, the first, a repeated one, or one
\* on a Fetcher that never downloaded, returns no error, leaves that
\* Fetcher's directory absent and every other Fetcher's directory as it was.
C15_CleanupIdempotent ==
    /\ [](\A f \in Fetchers :
            cleanCalls[f] >= 1 => (dirs[f] = "absent" /\ cleanRet[f] = "nil"))
    /\ [][\A f \in Fetchers :
            cleanCalls'[f] # cleanCalls[f] =>
                /\ dirs'[f] = "absent"
                /\ cleanRet'[f] = "nil"
                /\ dirs[f] = "absent" => dirs' = dirs
                /\ \A g \in Fetchers \ {f} : dirs'[g] = dirs[g]
                /\ top' = top
       ]_vars

C15_Witness ==
    \E f \in Fetchers : \E g \in Fetchers : \E h \in Fetchers :
        /\ cleanCalls[f] = 2 /\ cleanRet[f] = "nil" /\ dirs[f] = "absent"
        /\ cleanCalls[g] = 1 /\ cleanRet[g] = "nil" /\ dirs[g] = "absent"
        /\ cleanCalls[h] = 0 /\ dirs[h] = "files"

\* The fetch tasks that were started and have not returned.
InFlight == {t \in Tasks : tpc[t] \notin {"none", "fin"}}

\* C16: a fetch task with an image returns, and counts down the WaitGroup,
\* only in the step in which the dispatcher receives the image; when the
\* batch join has released, every task of the batch has returned, every
\* image of the batch was received and none waits on the channel.
C16_SynchronousHandoff ==
    /\ [](Joined =>
            \A t \in BatchTasks :
                /\ tpc[t] = "fin"
                /\ errSent[t] = 0 => imgSent[t] = 1)
    /\ [](\A t \in Tasks : tpc[t] = "sendImg" => (imgSent[t] = 0 /\ wg >= 1))
    /\ [][\A t \in Tasks :
            (tpc[t] = "sendImg" /\ tpc'[t] # "sendImg") =>
                /\ tpc'[t] = "fin"
                /\ imgSent'[t] = 1
                /\ dimg' = t
                /\ wg' = wg - 1
       ]_vars

C16_Witness ==
    /\ hpc = "sleep"
    /\ Len(batch) >= 2
    /\ \A t \in BatchTasks : imgSent[t] = 1
    /\ dimg \in BatchTasks

\* C17: the WaitGroup counter is the number of fetch tasks started and not
\* yet returned; it is never negative and is zero when no task is in flight.
C17_WaitGroupCountsTasks ==
    /\ wg >= 0
    /\ wg = Cardinality(InFlight)

\* C18: at most one fetch task of a Fetcher is in flight at any time, over
\* all cycles.
C18_OneTaskPerFetcher ==
    \A f \in Fetchers : Cardinality(InFlight \cap TasksFor(f)) <= 1

C18_Witness ==
    \E f \in Fetchers :
        /\ tpc[<<f, 1>>] = "fin"
        /\ dirs[f] = "files"
        /\ tpc[<<f, 2>>] = "start"

\* C19: error forwarders end with their fetch task, so at no time are more
\* forwarders alive than there are Fetchers, whatever the number of cycles.
C19_ForwardersBounded ==
    Cardinality({t \in Tasks : fwd[t] # "none"}) <= NumFetchers

====
